---- MODULE Spec2Model ----
(***************************************************************************)
(* Model of the video compilation service:                                 *)
(*   src/motivational_video_editor.py  (format analysis / reconciliation,  *)
(*       download_media_from_url, create_seamless_video_compilation)       *)
(*   src/main.py                       (generate_seamless_videos handler)  *)
(*                                                                         *)
(* Real-valued parameters (volumes, intensity) are carried in tenths:      *)
(* 0.8 is 8, the range [0.0, 1.0] is 0..10.  Aspect-ratio comparisons      *)
(* w/h >= 0.5 are carried out on integers as 10*w >= 5*h.                  *)
(***************************************************************************)
EXTENDS Integers, Sequences, FiniteSets, TLC

(* ------------------------------ bounds --------------------------------- *)

\* largest number of video URLs of a request that enters the pipeline
MaxVideos == 2

\* longest clips_info list given to standardize_video_format on its own
MaxInfos == 3

\* largest side of the small frame sizes given to analyze_video_format on its own
MaxSide == 20

(* ------------------------- program constants --------------------------- *)

\* main.py:378  "Maximum 10 videos allowed per compilation"
MaxUrlsAllowed == 10

\* motivational_video_editor.py:374  max_retries = 3
max_retries == 3

\* motivational_video_editor.py:261  actual_size < 1024
MinFileSize == 1024

\* Python's None where an object is expected
None == [ none |-> TRUE ]

\* None, or no text, where a string is expected
NoText == "None"

(* ======================================================================= *)
(* Format Analyzer: analyze_video_format                                    *)
(* ======================================================================= *)

\* variant: the upper edge of the vertical band is excluded
format_type_strict_edge(width, height) ==
    IF 5 * height <= 10 * width /\ 10 * width < 6 * height THEN "vertical_social"
    ELSE IF 17 * height <= 10 * width /\ 10 * width <= 18 * height THEN "horizontal_standard"
    ELSE IF 9 * height <= 10 * width /\ 10 * width <= 11 * height THEN "square"
    ELSE IF 10 * width > 18 * height THEN "ultra_wide"
    ELSE "custom"

\* the if/elif chain on aspect_ratio = width / height (height > 0)
format_type_of(width, height) ==
    IF 5 * height <= 10 * width /\ 10 * width <= 6 * height THEN "vertical_social"
    ELSE IF 17 * height <= 10 * width /\ 10 * width <= 18 * height THEN "horizontal_standard"
    ELSE IF 9 * height <= 10 * width /\ 10 * width <= 11 * height THEN "square"
    ELSE IF 10 * width > 18 * height THEN "ultra_wide"
    ELSE "custom"

analyze_video_format(width, height) ==
    [ width           |-> width,
      height          |-> height,
      format_type     |-> format_type_of(width, height),
      is_social_ready |-> format_type_of(width, height) = "vertical_social" ]

(* ======================================================================= *)
(* Format Reconciler: standardize_video_format                              *)
(* ======================================================================= *)

\* format_counts.get(fmt, 0) after the counting loop
format_count(clips_info, fmt) ==
    Cardinality({ k \in 1..Len(clips_info) : clips_info[k].format_type = fmt })

IndexError == [ error |-> "IndexError" ]

\* target_format == "keep_original": clips_info[0] of an empty list raises
standardize_keep_original(clips_info) ==
    IF Len(clips_info) = 0 THEN IndexError
    ELSE [ width         |-> clips_info[1].width,
           height        |-> clips_info[1].height,
           format_type   |-> clips_info[1].format_type,
           resize_needed |-> FALSE ]

\* variant: width and height exchanged
standardize_vertical_swapped ==
    [ width |-> 1920, height |-> 1080, format_type |-> "vertical_social",
      resize_needed |-> TRUE ]

standardize_vertical ==
    [ width |-> 1080, height |-> 1920, format_type |-> "vertical_social",
      resize_needed |-> TRUE ]

standardize_horizontal ==
    [ width |-> 1920, height |-> 1080, format_type |-> "horizontal_standard",
      resize_needed |-> TRUE ]

\* variant: a strict majority is asked for
vertical_majority_strict(clips_info) ==
    2 * format_count(clips_info, "vertical_social") > Len(clips_info)

\* count >= len(clips_info) / 2 with true division: 2 * count >= len
vertical_majority(clips_info) ==
    2 * format_count(clips_info, "vertical_social") >= Len(clips_info)

horizontal_majority(clips_info) ==
    2 * format_count(clips_info, "horizontal_standard") >= Len(clips_info)

\* the flag returned by the two majority branches
majority_resize_needed == FALSE

\* the else branch: auto mode (every target_format that is none of the three)
standardize_auto(clips_info) ==
    IF vertical_majority(clips_info)
    THEN [ width |-> 1080, height |-> 1920, format_type |-> "vertical_social",
           resize_needed |-> majority_resize_needed ]
    ELSE IF horizontal_majority(clips_info)
    THEN [ width |-> 1920, height |-> 1080, format_type |-> "horizontal_standard",
           resize_needed |-> majority_resize_needed ]
    ELSE [ width |-> 1080, height |-> 1920, format_type |-> "vertical_social",
           resize_needed |-> TRUE ]

standardize_video_format(clips_info, target_format) ==
    IF target_format = "keep_original" THEN standardize_keep_original(clips_info)
    ELSE IF target_format = "vertical" THEN standardize_vertical
    ELSE IF target_format = "horizontal" THEN standardize_horizontal
    ELSE standardize_auto(clips_info)


(* ======================================================================= *)
(* Asset Fetcher: download_media_from_url                                   *)
(* ======================================================================= *)

\* What the network and the file system do during one call.
\*   request        : outcome of requests.get + raise_for_status
\*   declared       : the response has a content-length header
\*   content_length : the length it declares
\*   stream_ok      : iter_content / write / fsync run to the end
\*   size1, size2   : os.path.getsize at line 248 and at the re-check, line 255
\*   markers64/1k   : 'ftyp'/'moov' in the first 64 bytes; 'ftyp'/'moov'/'mdat'
\*                    in the first 1024 bytes
\*   verify_open_ok : the open() of the header probe, line 266
\*   access_ok      : the open()/read() of the final access test, line 286
FileSizes == {0, 500, 1024, 2000}

DownloadEnv ==
    { e \in [ request        : {"ok", "http_error", "timeout"},
              declared       : BOOLEAN,
              content_length : FileSizes \ {0},
              stream_ok      : BOOLEAN,
              size1          : FileSizes,
              size2          : FileSizes,
              markers64      : BOOLEAN,
              markers1k      : BOOLEAN,
              verify_open_ok : BOOLEAN,
              access_ok      : BOOLEAN ] :
        /\ e.markers64 => e.markers1k
        /\ e.size1 <= e.size2
        /\ ~e.declared => e.content_length = MinFileSize }

\* lines 251-258: the size mismatch re-check
size_recheck_made(e) ==
    e.declared /\ e.size1 # e.content_length

actual_size(e) ==
    IF size_recheck_made(e) /\ e.size2 # e.size1 THEN e.size2 ELSE e.size1

\* variant: only an empty file is rejected
too_small_only_empty(e) == actual_size(e) = 0

\* lines 260-262
too_small(e) == actual_size(e) < MinFileSize

\* lines 264-282: the container probe; its only effect is a printed warning
integrity_warning(e, file_extension) ==
    \/ ~e.verify_open_ok
    \/ file_extension = "mp4" /\ ~e.markers64 /\ ~e.markers1k

\* lines 284-290
access_test_fails(e) == ~e.access_ok

\* variant: the exception of line 280 is not caught, absent markers are fatal
download_strict_markers(e, file_extension) ==
    IF e.request # "ok"
    THEN [ returned |-> FALSE, created |-> FALSE, cause |-> e.request,
           warning |-> FALSE, rechecked |-> FALSE ]
    ELSE IF ~e.stream_ok
    THEN [ returned |-> FALSE, created |-> TRUE, cause |-> "stream_error",
           warning |-> FALSE, rechecked |-> FALSE ]
    ELSE IF too_small(e)
    THEN [ returned |-> FALSE, created |-> TRUE, cause |-> "too_small",
           warning |-> FALSE, rechecked |-> size_recheck_made(e) ]
    ELSE IF integrity_warning(e, file_extension)
    THEN [ returned |-> FALSE, created |-> TRUE, cause |-> "not_valid_mp4",
           warning |-> FALSE, rechecked |-> size_recheck_made(e) ]
    ELSE IF access_test_fails(e)
    THEN [ returned |-> FALSE, created |-> TRUE, cause |-> "not_accessible",
           warning |-> FALSE, rechecked |-> size_recheck_made(e) ]
    ELSE [ returned |-> TRUE, created |-> TRUE, cause |-> NoText,
           warning |-> FALSE, rechecked |-> size_recheck_made(e) ]

\* The call as a whole.  cause is the message wrapped by line 296, created
\* says whether the NamedTemporaryFile of line 228 was created (delete=False:
\* nothing in the function removes it again), returned whether line 292 is
\* reached.
download_media_from_url(e, file_extension) ==
    IF e.request # "ok"
    THEN [ returned |-> FALSE, created |-> FALSE, cause |-> e.request,
           warning |-> FALSE, rechecked |-> FALSE ]
    ELSE IF ~e.stream_ok
    THEN [ returned |-> FALSE, created |-> TRUE, cause |-> "stream_error",
           warning |-> FALSE, rechecked |-> FALSE ]
    ELSE IF too_small(e)
    THEN [ returned |-> FALSE, created |-> TRUE, cause |-> "too_small",
           warning |-> FALSE, rechecked |-> size_recheck_made(e) ]
    ELSE IF access_test_fails(e)
    THEN [ returned |-> FALSE, created |-> TRUE, cause |-> "not_accessible",
           warning |-> integrity_warning(e, file_extension),
           rechecked |-> size_recheck_made(e) ]
    ELSE [ returned |-> TRUE, created |-> TRUE, cause |-> NoText,
           warning |-> integrity_warning(e, file_extension),
           rechecked |-> size_recheck_made(e) ]

\* line 296: raise Exception(f"Failed to download media from URL: {str(e)}")
\* The message carries the cause and neither the URL nor an input index.
DownloadError(cause) ==
    [ stage |-> "download", index |-> 0, cause |-> cause ]


(* ======================================================================= *)
(* State                                                                    *)
(* ======================================================================= *)

VARIABLES
    pc,                 \* position in generate_seamless_videos / create_seamless_video_compilation
    req,                \* the VideoRequest, or the arguments of a direct call
    http,               \* the handler's response: status 0 = none yet
    temp_output_path,   \* main.py:417  id of the handler's temporary output file, 0 = none
    output_path,        \* id of the file the pipeline exports to, 0 = not yet set
    disk,               \* every temp file created so far: [kind, src, content, exists]
    downloaded_videos,  \* ids (indices into disk) of the fetched videos, in order
    downloaded_audio,   \* id of the fetched audio file, 0 = None
    i,                  \* index of the running for loop (0-based as in the source)
    attempt,            \* attempt of the retry loop (0-based)
    clip,               \* the retry loop's variable clip: None or a handle
    clips,              \* list of loaded clips
    clips_info,         \* list of analyze_video_format results
    stray,              \* handles no variable refers to any more and that are still open
    target_format,      \* None or the result of standardize_video_format
    processed_clips,    \* list of processed clips
    final_video,        \* None or the concatenated video
    background_audio,   \* None or the AudioFileClip opened on downloaded_audio
    err,                \* None or the exception propagating out of the pipeline
    result,             \* 0, or the path (file id) create_seamless_video_compilation returned
    fin,                \* argument of a function applied on its own
    fout                \* its result

vars == << pc, req, http, temp_output_path, output_path, disk, downloaded_videos,
           downloaded_audio, i, attempt, clip, clips, clips_info, stray,
           target_format, processed_clips, final_video, background_audio,
           err, result, fin, fout >>

pipeVars == << output_path, disk, downloaded_videos, downloaded_audio, i, attempt,
               clip, clips, clips_info, stray, target_format, processed_clips,
               final_video, background_audio, err, result >>

(* ------------------------------ requests ------------------------------- *)

\* A URL, as far as the handler looks at it: ',' in url, url.count('http')
Url == [ comma : BOOLEAN, http : {1, 2} ]

PlainUrl == [ comma |-> FALSE, http |-> 1 ]

PlainList(n) == [ k \in 1..n |-> PlainUrl ]

\* URL lists: plain lists of every length up to MaxVideos, one list longer than
\* the handler allows, and every list with one URL of another shape
UrlLists ==
    { PlainList(n) : n \in 0..MaxVideos }
    \cup { PlainList(MaxUrlsAllowed + 1) }
    \cup UNION { { [ PlainList(n) EXCEPT ![k] = u ] : k \in 1..n, u \in Url } :
                 n \in 1..MaxVideos }

\* (video_audio_volume, background_music_volume, moody_intensity, apply_moody_effect)
ValidParams == { <<8, 3, 7, FALSE>>, <<0, 10, 0, TRUE>>, <<10, 0, 10, TRUE>> }

InvalidParams ==
    { <<0 - 1, 3, 7, FALSE>>, <<11, 3, 7, FALSE>>, <<8, 0 - 1, 7, FALSE>>,
      <<8, 11, 7, TRUE>>, <<8, 3, 0 - 1, TRUE>>, <<8, 3, 11, FALSE>>,
      <<11, 11, 11, TRUE>> }

Request(entry, urls, audio, mode, p) ==
    [ entry                   |-> entry,
      video_urls              |-> urls,
      audio_url               |-> audio,
      format_mode             |-> mode,
      video_audio_volume      |-> p[1],
      background_music_volume |-> p[2],
      moody_intensity         |-> p[3],
      apply_moody_effect      |-> p[4] ]

\* requests POSTed to /generate-sf-videos
HttpRequests ==
    { Request("http", urls, NoText, "vertical", <<8, 3, 7, FALSE>>) : urls \in UrlLists }
    \cup { Request("http", PlainList(n), a, m, p) :
             n \in 1..MaxVideos, a \in {NoText, "audio_url"},
             m \in {"vertical", "horizontal", "auto", "keep_original", "square"},
             p \in ValidParams \cup InvalidParams }

\* direct calls of create_seamless_video_compilation (no validation in front,
\* output_path left to its default None)
DirectCalls ==
    { Request("call", PlainList(n), a, "keep_original", <<8, 3, 7, FALSE>>) :
        n \in 1..MaxVideos, a \in {NoText, "audio_url"} }
    \cup { Request("call", PlainList(n), NoText, "auto", p) :
        n \in 1..MaxVideos, p \in { <<8, 3, 15, TRUE>>, <<8, 3, 0 - 5, TRUE>> } }

(* --------------------------- remote content ---------------------------- *)

\* what a fetched video decodes to: size, duration (s), whether it has audio
ClipKinds ==
    { [ width |-> 1080, height |-> 1920, duration |-> 1, audio |-> TRUE ],
      [ width |-> 1920, height |-> 1080, duration |-> 2, audio |-> FALSE ],
      [ width |-> 720,  height |-> 1280, duration |-> 2, audio |-> TRUE ],
      [ width |-> 1000, height |-> 1000, duration |-> 1, audio |-> FALSE ] }

\* what a fetched audio track decodes to
AudioKinds == { [ duration |-> 1 ], [ duration |-> 5 ] }

PipeIdle ==
    /\ output_path = 0
    /\ disk = << >>
    /\ downloaded_videos = << >>
    /\ downloaded_audio = 0
    /\ i = 0
    /\ attempt = 0
    /\ clip = None
    /\ clips = << >>
    /\ clips_info = << >>
    /\ stray = << >>
    /\ target_format = None
    /\ processed_clips = << >>
    /\ final_video = None
    /\ background_audio = None
    /\ err = None
    /\ result = 0

NoResponse == [ status |-> 0, detail |-> NoText, cause |-> None ]

Init ==
    /\ req \in HttpRequests \cup DirectCalls
    /\ pc = IF req.entry = "http" THEN "handler" ELSE "create"
    /\ http = NoResponse
    /\ temp_output_path = 0
    /\ PipeIdle
    /\ fin = None
    /\ fout = None


(* ======================================================================= *)
(* HTTP handler: generate_seamless_videos, validation                       *)
(* ======================================================================= *)

\* main.py:385  ',' in url and url.count('http') > 1
url_malformed(url) == url.comma /\ url.http > 1

\* main.py:392
valid_formats == {"vertical", "horizontal", "auto"}

\* variant: the upper limit is not checked
in_unit_range_no_upper(x) == 0 <= x

\* main.py:399, 404, 409   0.0 <= x <= 1.0
in_unit_range(x) == 0 <= x /\ x <= 10

too_many_urls(urls) == Len(urls) > MaxUrlsAllowed

\* main.py:372-412: the detail of the first check that fails, NoText if all pass
validation_error(r) ==
    IF Len(r.video_urls) < 1 THEN "At least one video URL is required"
    ELSE IF too_many_urls(r.video_urls) THEN "Maximum 10 videos allowed per compilation"
    ELSE IF \E k \in 1..Len(r.video_urls) : url_malformed(r.video_urls[k])
         THEN "Video URL appears to contain multiple URLs"
    ELSE IF r.format_mode \notin valid_formats THEN "format_mode must be one of"
    ELSE IF ~in_unit_range(r.video_audio_volume) THEN "video_audio_volume must be between 0.0 and 1.0"
    ELSE IF ~in_unit_range(r.background_music_volume)
         THEN "background_music_volume must be between 0.0 and 1.0"
    ELSE IF ~in_unit_range(r.moody_intensity) THEN "moody_intensity must be between 0.0 and 1.0"
    ELSE NoText

NewFile(kind, src, content) ==
    [ kind |-> kind, src |-> src, content |-> content, exists |-> TRUE ]

\* os.unlink behind an os.path.exists test
Unlink(d, ids) ==
    [ k \in 1..Len(d) |-> IF k \in ids THEN [ d[k] EXCEPT !.exists = FALSE ] ELSE d[k] ]

\* main.py:358-418: validation; a failing check raises HTTPException(400),
\* which line 464 re-raises as it is; otherwise the temporary output file is
\* created and the pipeline is called
HandlerValidate ==
    /\ pc = "handler"
    /\ IF validation_error(req) # NoText
       THEN /\ http' = [ status |-> 400, detail |-> validation_error(req), cause |-> None ]
            /\ pc' = "responded"
            /\ UNCHANGED << temp_output_path, disk >>
       ELSE /\ disk' = Append(disk, NewFile("output", 0, None))
            /\ temp_output_path' = Len(disk) + 1
            /\ pc' = "create"
            /\ UNCHANGED http
    /\ UNCHANGED << req, output_path, downloaded_videos, downloaded_audio, i, attempt,
                    clip, clips, clips_info, stray, target_format, processed_clips,
                    final_video, background_audio, err, result, fin, fout >>


(* ======================================================================= *)
(* create_seamless_video_compilation                                        *)
(* ======================================================================= *)

NumVideos == Len(req.video_urls)

\* every distinct way one fetch can end
VideoDownloadResults == { download_media_from_url(e, "mp4") : e \in DownloadEnv }

AudioDownloadResults == { download_media_from_url(e, "mp3") : e \in DownloadEnv }

\* lines 318-325: output_path defaults to a fresh NamedTemporaryFile
Create ==
    /\ pc = "create"
    /\ IF temp_output_path # 0
       THEN /\ output_path' = temp_output_path
            /\ UNCHANGED disk
       ELSE /\ output_path' = Len(disk) + 1
            /\ disk' = Append(disk, NewFile("output", 0, None))
    /\ downloaded_videos' = << >>
    /\ downloaded_audio' = 0
    /\ i' = 0
    /\ pc' = IF NumVideos > 0 THEN "download_videos"
             ELSE IF req.audio_url # NoText THEN "download_audio" ELSE "load"
    /\ UNCHANGED << req, http, temp_output_path, attempt, clip, clips, clips_info, stray,
                    target_format, processed_clips, final_video, background_audio,
                    err, result, fin, fout >>

\* the file a fetch leaves behind: nothing in download_media_from_url removes
\* the NamedTemporaryFile(delete=False) it created when it raises afterwards
disk_after_download(d, r, kind, src, content) ==
    IF r.created
    THEN Append(d, NewFile(kind, src, IF r.returned THEN content ELSE None))
    ELSE d

\* lines 330-333: one iteration of the video download loop
DownloadVideo ==
    /\ pc = "download_videos"
    /\ \E r \in VideoDownloadResults, k \in ClipKinds :
         /\ disk' = disk_after_download(disk, r, "video", i + 1, k)
         /\ IF r.returned
            THEN /\ downloaded_videos' = Append(downloaded_videos, Len(disk) + 1)
                 /\ i' = IF i + 1 < NumVideos THEN i + 1 ELSE 0
                 /\ pc' = IF i + 1 < NumVideos THEN "download_videos"
                          ELSE IF req.audio_url # NoText THEN "download_audio"
                          ELSE "load"
                 /\ UNCHANGED err
            ELSE /\ err' = DownloadError(r.cause)
                 /\ pc' = "finally"
                 /\ UNCHANGED << downloaded_videos, i >>
    /\ UNCHANGED << req, http, temp_output_path, output_path, downloaded_audio, attempt,
                    clip, clips, clips_info, stray, target_format, processed_clips,
                    final_video, background_audio, result, fin, fout >>

\* lines 336-338
DownloadAudio ==
    /\ pc = "download_audio"
    /\ \E r \in AudioDownloadResults, k \in AudioKinds :
         /\ disk' = disk_after_download(disk, r, "audio", 0, k)
         /\ IF r.returned
            THEN /\ downloaded_audio' = Len(disk) + 1
                 /\ pc' = "load"
                 /\ UNCHANGED err
            ELSE /\ err' = DownloadError(r.cause)
                 /\ pc' = "finally"
                 /\ UNCHANGED downloaded_audio
    /\ UNCHANGED << req, http, temp_output_path, output_path, downloaded_videos, i, attempt,
                    clip, clips, clips_info, stray, target_format, processed_clips,
                    final_video, background_audio, result, fin, fout >>


(* ------------------------------ Clip Loader ---------------------------- *)

\* VideoFileClip(path, audio=...) once it opened: a handle over file f
OpenClip(f, with_audio) ==
    [ file     |-> f,
      width    |-> disk[f].content.width,
      height   |-> disk[f].content.height,
      duration |-> disk[f].content.duration,
      audio    |-> with_audio /\ disk[f].content.audio,
      validated |-> FALSE,
      open     |-> TRUE ]

\* lines 403-416: the handle once clip.duration > 0 held and get_frame(0)
\* returned
Validated(h) == [ h EXCEPT !.validated = TRUE ]

Close(h) == IF h = None THEN None ELSE [ h EXCEPT !.open = FALSE ]

CloseAll(hs) == [ k \in 1..Len(hs) |-> Close(hs[k]) ]

\* lines 344-370: the checks in front of the first load attempt.  Another
\* process may have removed or emptied the file since it was fetched.
PreLoadObservations == {"ok", "missing", "empty"}

\* line 432: "Failed to load video clip {i+1} after 3 attempts: {clip_error}";
\* attempt tells which attempt's exception clip_error is.  Lines 352 and 356
\* name the path, not the position.
LoadError(stage, index, cause, att) ==
    [ stage |-> stage, index |-> index, cause |-> cause, attempt |-> att ]

LoadCheck ==
    /\ pc = "load"
    /\ i < Len(downloaded_videos)
    /\ \E seen \in PreLoadObservations :
         IF seen = "ok"
         THEN /\ pc' = "load_attempt"
              /\ attempt' = 0
              /\ clip' = None
              /\ UNCHANGED << disk, err >>
         ELSE /\ pc' = "finally"
              /\ err' = LoadError("load_check", 0, seen, 0)
              /\ disk' = IF seen = "missing"
                         THEN Unlink(disk, {downloaded_videos[i + 1]}) ELSE disk
              /\ UNCHANGED << attempt, clip >>
    /\ UNCHANGED << req, http, temp_output_path, output_path, downloaded_videos,
                    downloaded_audio, i, clips, clips_info, stray, target_format,
                    processed_clips, final_video, background_audio, result, fin, fout >>

\* What the decoder does during one attempt: whether the (first) open works,
\* whether the second open of attempt 2 works, whether the duration read is
\* positive, whether get_frame(0) works.
AttemptEnv ==
    [ open_ok : BOOLEAN, reattach_ok : BOOLEAN, duration_ok : BOOLEAN, frame_ok : BOOLEAN ]

\* variant: the first attempt already opens without audio
attempt_open_video_only_first(f, att, prev, e) ==
    IF ~e.open_ok
    THEN [ clip |-> prev, left |-> None, raised |-> TRUE ]
    ELSE IF att = 1 /\ e.reattach_ok
    THEN IF OpenClip(f, TRUE).audio
         THEN [ clip |-> OpenClip(f, TRUE), left |-> None, raised |-> FALSE ]
         ELSE [ clip |-> OpenClip(f, FALSE), left |-> OpenClip(f, TRUE),
                raised |-> FALSE ]
    ELSE [ clip |-> OpenClip(f, FALSE), left |-> None, raised |-> FALSE ]

\* lines 381-399: the open of the attempt.  Result: the new value of clip, the
\* handle left open without a reference (None if none), and whether an
\* exception left the try block.
attempt_open(f, att, prev, e) ==
    IF ~e.open_ok
    THEN [ clip |-> prev, left |-> None, raised |-> TRUE ]
    ELSE IF att = 0
    THEN [ clip |-> OpenClip(f, TRUE), left |-> None, raised |-> FALSE ]
    ELSE IF att = 1
    THEN IF e.reattach_ok
         THEN IF OpenClip(f, TRUE).audio
              \* clip.close(); clip = clip_with_audio
              THEN [ clip |-> OpenClip(f, TRUE), left |-> None, raised |-> FALSE ]
              \* clip_with_audio.audio is None: the second handle is dropped unclosed
              ELSE [ clip |-> OpenClip(f, FALSE), left |-> OpenClip(f, TRUE),
                     raised |-> FALSE ]
         ELSE [ clip |-> OpenClip(f, FALSE), left |-> None, raised |-> FALSE ]
    ELSE [ clip |-> OpenClip(f, FALSE), left |-> None, raised |-> FALSE ]

\* variant: a failing frame read on the last attempt does not raise, the loop
\* runs out and the closed handle is appended
load_attempt_running_out(f, att, prev, e) ==
    LET o == attempt_open(f, att, prev, e) IN
    IF o.raised
    THEN \* except branch: clip is what it was before the attempt
         [ outcome |-> IF att = max_retries - 1 THEN "fatal" ELSE "retry",
           clip |-> None, left |-> None, cause |-> "open_error" ]
    ELSE IF ~e.duration_ok
    THEN \* clip.close(); raise; the except branch closes again and clears clip
         [ outcome |-> IF att = max_retries - 1 THEN "fatal" ELSE "retry",
           clip |-> None, left |-> o.left, cause |-> "invalid_duration" ]
    ELSE IF ~e.frame_ok
    THEN IF att = max_retries - 1
         THEN [ outcome |-> "loaded", clip |-> Close(o.clip), left |-> o.left,
                cause |-> NoText ]
         \* clip.close(); continue: clip keeps the closed handle
         ELSE [ outcome |-> "retry", clip |-> Close(o.clip), left |-> o.left,
                cause |-> "frame_error" ]
    ELSE [ outcome |-> "loaded", clip |-> Validated(o.clip), left |-> o.left,
           cause |-> NoText ]

\* lines 376-435: one pass through the body of the retry loop.
\*   outcome "loaded": break        "retry": next attempt      "fatal": raise
load_attempt(f, att, prev, e) ==
    LET o == attempt_open(f, att, prev, e) IN
    IF o.raised
    THEN \* except branch: clip is what it was before the attempt
         [ outcome |-> IF att = max_retries - 1 THEN "fatal" ELSE "retry",
           clip |-> None, left |-> None, cause |-> "open_error" ]
    ELSE IF ~e.duration_ok
    THEN \* clip.close(); raise; the except branch closes again and clears clip
         [ outcome |-> IF att = max_retries - 1 THEN "fatal" ELSE "retry",
           clip |-> None, left |-> o.left, cause |-> "invalid_duration" ]
    ELSE IF ~e.frame_ok
    THEN IF att = max_retries - 1
         \* raise frame_error: the except branch closes clip and clears it
         THEN [ outcome |-> "fatal", clip |-> None, left |-> o.left,
                cause |-> "frame_error" ]
         \* clip.close(); continue: clip keeps the closed handle
         ELSE [ outcome |-> "retry", clip |-> Close(o.clip), left |-> o.left,
                cause |-> "frame_error" ]
    ELSE [ outcome |-> "loaded", clip |-> Validated(o.clip), left |-> o.left,
           cause |-> NoText ]

\* variant: the clips loaded so far are left as they are
close_existing_clips_skipped(cs) == cs

\* lines 430-431: for existing_clip in clips: existing_clip.close()
close_existing_clips(cs) == CloseAll(cs)

\* line 432, raised in the except branch of attempt att for input i (0-based)
load_failure(idx, cause, att) == LoadError("load", idx + 1, cause, att)

AddStray(st, h) == IF h = None THEN st ELSE Append(st, h)

\* lines 376-442: an attempt, and on success lines 437-442
LoadAttempt ==
    /\ pc = "load_attempt"
    /\ \E e \in AttemptEnv :
         LET a == load_attempt(downloaded_videos[i + 1], attempt, clip, e) IN
         /\ stray' = AddStray(stray, a.left)
         /\ IF a.outcome = "loaded"
            THEN /\ clips' = Append(clips, a.clip)
                 /\ clips_info' = Append(clips_info,
                                         analyze_video_format(a.clip.width, a.clip.height))
                 /\ clip' = None   \* from here on the handle is clips[i]
                 /\ attempt' = 0
                 /\ i' = IF i + 1 < Len(downloaded_videos) THEN i + 1 ELSE 0
                 /\ pc' = IF i + 1 < Len(downloaded_videos) THEN "load" ELSE "standardize"
                 /\ UNCHANGED err
            ELSE IF a.outcome = "retry"
            THEN /\ attempt' = attempt + 1
                 /\ clip' = a.clip
                 /\ UNCHANGED << pc, i, clips, clips_info, err >>
            ELSE \* lines 426-432: close the clips loaded so far and raise
                 /\ clips' = close_existing_clips(clips)
                 /\ clip' = a.clip
                 /\ err' = load_failure(i, a.cause, attempt)
                 /\ pc' = "finally"
                 /\ UNCHANGED << i, attempt, clips_info >>
    /\ UNCHANGED << req, http, temp_output_path, output_path, disk, downloaded_videos,
                    downloaded_audio, target_format, processed_clips, final_video,
                    background_audio, result, fin, fout >>


(* ------------------------- reconcile and process ----------------------- *)

PipelineError(stage, cause) == [ stage |-> stage, index |-> 0, cause |-> cause ]

\* line 445
Standardize ==
    /\ pc = "standardize"
    /\ LET t == standardize_video_format(clips_info, req.format_mode) IN
         IF t = IndexError
         THEN /\ err' = PipelineError("standardize", "IndexError")
              /\ pc' = "finally"
              /\ UNCHANGED << target_format, i >>
         ELSE /\ target_format' = t
              /\ i' = 0
              /\ pc' = "process"
              /\ UNCHANGED err
    /\ UNCHANGED << req, http, temp_output_path, output_path, disk, downloaded_videos,
                    downloaded_audio, attempt, clip, clips, clips_info, stray,
                    processed_clips, final_video, background_audio, result, fin, fout >>

\* variant: the target's resize_needed flag decides whether to resize
resize_clip_by_flag(c, t, src) ==
    [ src |-> src, same |-> ~t.resize_needed, resized |-> t.resize_needed,
      width    |-> IF t.resize_needed THEN t.width ELSE c.width,
      height   |-> IF t.resize_needed THEN t.height ELSE c.height,
      duration |-> c.duration, audio |-> c.audio, effect |-> FALSE, intensity |-> 0,
      open |-> TRUE ]

\* variant: the clip is resized even when it has the target size
resize_clip_always(c, t, src) ==
    [ src |-> src, same |-> FALSE, resized |-> TRUE,
      width |-> t.width, height |-> t.height,
      duration |-> c.duration, audio |-> c.audio, effect |-> FALSE, intensity |-> 0,
      open |-> TRUE ]

\* resize_clip_if_needed applied to clips[src]: the clip itself (same = TRUE)
\* when the sizes agree, a new clip of the target size otherwise
resize_clip_if_needed(c, t, src) ==
    IF c.width # t.width \/ c.height # t.height
    THEN [ src |-> src, same |-> FALSE, resized |-> TRUE,
           width |-> t.width, height |-> t.height,
           duration |-> c.duration, audio |-> c.audio, effect |-> FALSE, intensity |-> 0,
           open |-> TRUE ]
    ELSE [ src |-> src, same |-> TRUE, resized |-> FALSE,
           width |-> c.width, height |-> c.height,
           duration |-> c.duration, audio |-> c.audio, effect |-> FALSE, intensity |-> 0,
           open |-> TRUE ]

\* apply_dark_moody_effect: clip.image_transform(color_effect) is a new clip
\* whose frames are computed with the intensity as passed
apply_dark_moody_effect(p, intensity) ==
    [ p EXCEPT !.same = FALSE, !.effect = TRUE, !.intensity = intensity ]

process_clip(c, t, src, r) ==
    IF r.apply_moody_effect
    THEN apply_dark_moody_effect(resize_clip_if_needed(c, t, src), r.moody_intensity)
    ELSE resize_clip_if_needed(c, t, src)

\* lines 450-461: one iteration of the processing loop; a step of the media
\* library may raise
ProcessClip ==
    /\ pc = "process"
    /\ \E ok \in BOOLEAN :
         IF ok
         THEN /\ processed_clips' =
                   Append(processed_clips, process_clip(clips[i + 1], target_format, i + 1, req))
              /\ i' = IF i + 1 < Len(clips) THEN i + 1 ELSE 0
              /\ pc' = IF i + 1 < Len(clips) THEN "process" ELSE "concatenate"
              /\ UNCHANGED err
         ELSE /\ err' = PipelineError("process", "library_error")
              /\ pc' = "finally"
              /\ UNCHANGED << processed_clips, i >>
    /\ UNCHANGED << req, http, temp_output_path, output_path, disk, downloaded_videos,
                    downloaded_audio, attempt, clip, clips, clips_info, stray,
                    target_format, final_video, background_audio, result, fin, fout >>

(* ------------------------------ Compiler ------------------------------- *)

RECURSIVE SumDurations(_)
SumDurations(ps) ==
    IF Len(ps) = 0 THEN 0 ELSE ps[1].duration + SumDurations(Tail(ps))

MaxOf(S) == CHOOSE m \in S : \A x \in S : x <= m

Reverse(q) == [ k \in 1..Len(q) |-> q[Len(q) + 1 - k] ]

\* the composed audio ends where the last clip that has audio ends
AudioEnd(ps) ==
    SumDurations(SubSeq(ps, 1, MaxOf({ k \in 1..Len(ps) : ps[k].audio })))

\* variant: the clips are joined last to first
concatenate_videoclips_reversed(ps) ==
    [ duration |-> SumDurations(ps),
      width    |-> MaxOf({ ps[k].width : k \in 1..Len(ps) }),
      height   |-> MaxOf({ ps[k].height : k \in 1..Len(ps) }),
      parts    |-> Reverse([ k \in 1..Len(ps) |-> ps[k].src ]),
      audio    |-> IF \E k \in 1..Len(ps) : ps[k].audio
                   THEN [ kind |-> "original", video_gain |-> 10, background_gain |-> 0,
                          duration |-> AudioEnd(ps) ]
                   ELSE None,
      open     |-> TRUE ]

\* variant: the clips' audio is scaled by video_audio_volume while joining
concatenate_videoclips_volume_scaled(ps) ==
    [ duration |-> SumDurations(ps),
      width    |-> MaxOf({ ps[k].width : k \in 1..Len(ps) }),
      height   |-> MaxOf({ ps[k].height : k \in 1..Len(ps) }),
      parts    |-> [ k \in 1..Len(ps) |-> ps[k].src ],
      audio    |-> IF \E k \in 1..Len(ps) : ps[k].audio
                   THEN [ kind |-> "original", video_gain |-> req.video_audio_volume,
                          background_gain |-> 0, duration |-> AudioEnd(ps) ]
                   ELSE None,
      open     |-> TRUE ]

\* concatenate_videoclips(processed_clips, method="compose"): the clips one
\* after the other, on a canvas of the largest width and height
concatenate_videoclips(ps) ==
    [ duration |-> SumDurations(ps),
      width    |-> MaxOf({ ps[k].width : k \in 1..Len(ps) }),
      height   |-> MaxOf({ ps[k].height : k \in 1..Len(ps) }),
      parts    |-> [ k \in 1..Len(ps) |-> ps[k].src ],
      audio    |-> IF \E k \in 1..Len(ps) : ps[k].audio
                   THEN [ kind |-> "original", video_gain |-> 10, background_gain |-> 0,
                          duration |-> AudioEnd(ps) ]
                   ELSE None,
      open     |-> TRUE ]

\* line 465
Concatenate ==
    /\ pc = "concatenate"
    /\ \E ok \in BOOLEAN :
         IF ok
         THEN /\ final_video' = concatenate_videoclips(processed_clips)
              /\ pc' = IF downloaded_audio # 0 THEN "mix" ELSE "export"
              /\ UNCHANGED err
         ELSE /\ err' = PipelineError("concatenate", "library_error")
              /\ pc' = "finally"
              /\ UNCHANGED final_video
    /\ UNCHANGED << req, http, temp_output_path, output_path, disk, downloaded_videos,
                    downloaded_audio, i, attempt, clip, clips, clips_info, stray,
                    target_format, processed_clips, background_audio, result, fin, fout >>


(* ----------------------------- Audio Mixer ----------------------------- *)

\* lines 473-475: the background track is shorter than the video.  The loop
\* is built with concatenate_audioclips, a name the module never imports or
\* defines (line 4), so evaluating line 475 raises NameError.
looping_needed(b, v) == b.duration < v.duration

\* line 477: background_audio.subclipped(0, final_video.duration)
subclipped_duration(b, v) == v.duration

\* lines 477-486: the trimmed background b under the request's volumes; a
\* CompositeAudioClip lasts as long as its longest member
mixed_audio(b, v, r) ==
    IF v.audio # None
    THEN [ kind |-> "mix", video_gain |-> r.video_audio_volume,
           background_gain |-> r.background_music_volume,
           duration |-> MaxOf({ v.audio.duration, subclipped_duration(b, v) }) ]
    ELSE [ kind |-> "background", video_gain |-> 0,
           background_gain |-> r.background_music_volume,
           duration |-> subclipped_duration(b, v) ]

\* lines 468-488
MixAudio ==
    /\ pc = "mix"
    /\ \E opened \in BOOLEAN :
         IF ~opened
         THEN /\ err' = PipelineError("mix", "audio_open_error")
              /\ pc' = "finally"
              /\ UNCHANGED << background_audio, final_video >>
         ELSE LET b == [ file     |-> downloaded_audio,
                         duration |-> disk[downloaded_audio].content.duration,
                         open     |-> TRUE ] IN
              /\ background_audio' = b
              /\ IF looping_needed(b, final_video)
                 THEN /\ err' = PipelineError("mix", "NameError")
                      /\ pc' = "finally"
                      /\ UNCHANGED final_video
                 ELSE /\ final_video' = [ final_video EXCEPT !.audio = mixed_audio(b, final_video, req) ]
                      /\ pc' = "export"
                      /\ UNCHANGED err
    /\ UNCHANGED << req, http, temp_output_path, output_path, disk, downloaded_videos,
                    downloaded_audio, i, attempt, clip, clips, clips_info, stray,
                    target_format, processed_clips, result, fin, fout >>

(* ------------------------------- Exporter ------------------------------ *)

\* line 496: final_video.write_videofile(output_path, codec='libx264',
\* audio_codec='aac') when it succeeds: the output file holds the whole video
write_videofile(d, path, v) ==
    [ d EXCEPT ![path].content =
        [ duration |-> v.duration, width |-> v.width, height |-> v.height,
          audio |-> v.audio, codec |-> "libx264", audio_codec |-> "aac" ] ]

\* lines 499-501: for clip in clips + processed_clips: clip.close(); final_video.close()
close_after_export(hs) == CloseAll(hs)

\* variant: an encoder failure is swallowed and the path returned all the same
Export_swallowing_failure ==
    /\ pc = "export"
    /\ \E ok \in BOOLEAN :
         /\ disk' = IF ok THEN write_videofile(disk, output_path, final_video) ELSE disk
         /\ clips' = close_after_export(clips)
         /\ processed_clips' = close_after_export(processed_clips)
         /\ final_video' = Close(final_video)
         /\ result' = output_path
         /\ UNCHANGED err
    /\ pc' = "finally"
    /\ UNCHANGED << req, http, temp_output_path, output_path, downloaded_videos,
                    downloaded_audio, i, attempt, clip, clips_info, stray, target_format,
                    background_audio, fin, fout >>

\* lines 491-504: write_videofile, then the closes, then return output_path
Export ==
    /\ pc = "export"
    /\ \E ok \in BOOLEAN :
         IF ok
         THEN /\ disk' = write_videofile(disk, output_path, final_video)
              /\ clips' = close_after_export(clips)
              /\ processed_clips' = close_after_export(processed_clips)
              /\ final_video' = Close(final_video)
              /\ result' = output_path
              /\ UNCHANGED err
         ELSE /\ err' = PipelineError("export", "encoder_error")
              /\ UNCHANGED << disk, clips, processed_clips, final_video, result >>
    /\ pc' = "finally"
    /\ UNCHANGED << req, http, temp_output_path, output_path, downloaded_videos,
                    downloaded_audio, i, attempt, clip, clips_info, stray, target_format,
                    background_audio, fin, fout >>

\* variant: the audio file is forgotten
files_to_unlink_videos_only ==
    { downloaded_videos[k] : k \in 1..Len(downloaded_videos) }

\* the files the finally block unlinks: lines 513-518
files_to_unlink ==
    { downloaded_videos[k] : k \in 1..Len(downloaded_videos) }
    \cup (IF downloaded_audio # 0 THEN {downloaded_audio} ELSE {})

\* lines 506-518: the exception, if any, is re-raised unchanged after the
\* finally block removed the downloaded files
Finally ==
    /\ pc = "finally"
    /\ disk' = Unlink(disk, files_to_unlink)
    /\ pc' = IF req.entry = "call" THEN "done"
             ELSE IF err = None THEN "upload" ELSE "handler_except"
    /\ UNCHANGED << req, http, temp_output_path, output_path, downloaded_videos,
                    downloaded_audio, i, attempt, clip, clips, clips_info, stray,
                    target_format, processed_clips, final_video, background_audio,
                    err, result, fin, fout >>

(* ======================================================================= *)
(* HTTP handler: upload and response                                        *)
(* ======================================================================= *)

\* main.py:467  "Video generation failed: {str(e)}" with status 500
ServerError(cause) ==
    [ status |-> 500, detail |-> "Video generation failed", cause |-> cause ]

\* main.py:436-462: upload, the finally block that removes the temporary
\* output file, and the response (or lines 466-472 if the upload raised)
HandlerUpload ==
    /\ pc = "upload"
    /\ \E uploaded \in BOOLEAN :
         http' = IF uploaded
                 THEN [ status |-> 200, detail |-> "secure_url", cause |-> None ]
                 ELSE ServerError(PipelineError("upload", "upload_error"))
    /\ disk' = Unlink(disk, {temp_output_path})
    /\ pc' = "responded"
    /\ UNCHANGED << req, temp_output_path, output_path, downloaded_videos,
                    downloaded_audio, i, attempt, clip, clips, clips_info, stray,
                    target_format, processed_clips, final_video, background_audio,
                    err, result, fin, fout >>

\* variant: the temporary output file is removed on the success path only
HandlerExcept_keeping_file ==
    /\ pc = "handler_except"
    /\ http' = ServerError(err)
    /\ pc' = "responded"
    /\ UNCHANGED << req, temp_output_path, output_path, disk, downloaded_videos,
                    downloaded_audio, i, attempt, clip, clips, clips_info, stray,
                    target_format, processed_clips, final_video, background_audio,
                    err, result, fin, fout >>

\* main.py:458-472 when the pipeline raised
HandlerExcept ==
    /\ pc = "handler_except"
    /\ http' = ServerError(err)
    /\ disk' = Unlink(disk, {temp_output_path})
    /\ pc' = "responded"
    /\ UNCHANGED << req, temp_output_path, output_path, downloaded_videos,
                    downloaded_audio, i, attempt, clip, clips, clips_info, stray,
                    target_format, processed_clips, final_video, background_audio,
                    err, result, fin, fout >>

(* ======================================================================= *)
(* Specification                                                            *)
(* ======================================================================= *)

Next ==
    \/ HandlerValidate
    \/ Create
    \/ DownloadVideo
    \/ DownloadAudio
    \/ LoadCheck
    \/ LoadAttempt
    \/ Standardize
    \/ ProcessClip
    \/ Concatenate
    \/ MixAudio
    \/ Export
    \/ Finally
    \/ HandlerUpload
    \/ HandlerExcept

Spec == Init /\ [][Next]_vars

(* ======================================================================= *)
(* standardize_video_format applied on its own                              *)
(* ======================================================================= *)

\* sizes of the analysed clips: 9:16 at two sizes, 16:9, square, ultra-wide, 4:3
InfoSizes ==
    { <<1080, 1920>>, <<720, 1280>>, <<1920, 1080>>, <<1000, 1000>>,
      <<2000, 800>>, <<640, 480>> }

Infos == { analyze_video_format(wh[1], wh[2]) : wh \in InfoSizes }

InfoLists == UNION { [ 1..n -> Infos ] : n \in 0..MaxInfos }

FormatModes == {"auto", "vertical", "horizontal", "keep_original", "square"}

InitFormat ==
    /\ pc = "format"
    /\ fin \in [ clips_info : InfoLists, target_format : FormatModes ]
    /\ fout = None
    /\ req = None
    /\ http = NoResponse
    /\ temp_output_path = 0
    /\ PipeIdle

ApplyStandardize ==
    /\ pc = "format"
    /\ fout' = standardize_video_format(fin.clips_info, fin.target_format)
    /\ pc' = "format_done"
    /\ UNCHANGED << req, http, temp_output_path, fin >>
    /\ UNCHANGED pipeVars

NextFormat == ApplyStandardize

SpecFormat == InitFormat /\ [][NextFormat]_vars


(* ======================================================================= *)
(* Properties                                                               *)
(* ======================================================================= *)

\* create_seamless_video_compilation was called and has returned or raised
PipelineReturned ==
    \/ pc \in {"done", "upload", "handler_except"}
    \/ pc = "responded" /\ output_path # 0

PipelineFailedAt(stages) ==
    PipelineReturned /\ err # None /\ err.stage \in stages

AssetFiles == { k \in 1..Len(disk) : disk[k].kind \in {"video", "audio"} }

\* the files over which a media handle is still open
OpenVideoHandleFiles ==
    { clips[k].file : k \in { j \in 1..Len(clips) : clips[j].open } }
    \cup { stray[k].file : k \in { j \in 1..Len(stray) : stray[j].open } }
    \cup { clips[processed_clips[k].src].file :
             k \in { j \in 1..Len(processed_clips) :
                       ~processed_clips[j].same /\ processed_clips[j].open } }
    \cup (IF clip # None /\ clip.open THEN {clip.file} ELSE {})

OpenAudioHandleFiles ==
    IF background_audio # None /\ background_audio.open
    THEN {background_audio.file} ELSE {}

NoHandleOpen ==
    /\ OpenVideoHandleFiles = {}
    /\ OpenAudioHandleFiles = {}
    /\ final_video # None => ~final_video.open

(* ------------------------------------------------------------------ C1 -- *)
\* C1: after a failure at the fetch, load or export stage, no temporary file
\* created for a video or audio asset during the invocation is left on disk
\* when create_seamless_video_compilation returns, the file of a download
\* that failed its size or access check included.
Cex_C1 ==
    PipelineFailedAt({"download", "load_check", "load", "export"})
        => \A k \in AssetFiles : ~disk[k].exists

(* ------------------------------------------------------------------ C2 -- *)
\* C2: on every exit path of create_seamless_video_compilation every media
\* handle opened during the invocation has been closed when the call returns.
Cex_C2 == PipelineReturned => NoHandleOpen

(* ------------------------------------------------------------------ C3 -- *)
\* C3: no state is reachable in which a downloaded file has been unlinked
\* while a clip opened from it is still open.
Cex_C3 ==
    \A f \in OpenVideoHandleFiles \cup OpenAudioHandleFiles : disk[f].exists

(* ------------------------------------------------------------------ C4 -- *)
OutsideUnit(x) == x < 0 \/ x > 10

RequestInvalid(r) ==
    \/ Len(r.video_urls) < 1
    \/ Len(r.video_urls) > 10
    \/ \E k \in 1..Len(r.video_urls) : r.video_urls[k].comma /\ r.video_urls[k].http > 1
    \/ r.format_mode \notin {"vertical", "horizontal", "auto"}
    \/ OutsideUnit(r.video_audio_volume)
    \/ OutsideUnit(r.background_music_volume)
    \/ OutsideUnit(r.moody_intensity)

\* C4: generate_seamless_videos answers 400, with no temporary file created
\* and no pipeline step started, whenever the request has fewer than 1 or more
\* than 10 URLs, a URL with a comma and more than one 'http', a format_mode
\* outside {vertical, horizontal, auto}, or a volume or intensity outside [0,1].
Thm_C4 ==
    (req.entry = "http" /\ RequestInvalid(req))
        => /\ pc \in {"handler", "responded"}
           /\ pc = "responded" => http.status = 400
           /\ disk = << >>
           /\ temp_output_path = 0
           /\ output_path = 0
           /\ downloaded_videos = << >>

Wit_C4 ==
    /\ req.entry = "http"
    /\ pc = "responded"
    /\ http.status = 400
    /\ req.moody_intensity > 10
    /\ Len(req.video_urls) = 1
    /\ req.format_mode = "auto"
    /\ disk = << >>

(* ------------------------------------------------------------------ C5 -- *)
AllStagesCompleted ==
    /\ err = None
    /\ Len(downloaded_videos) = NumVideos
    /\ Len(clips) = NumVideos
    /\ target_format # None
    /\ Len(processed_clips) = NumVideos
    /\ final_video # None
    /\ req.audio_url # NoText =>
          /\ downloaded_audio # 0
          /\ background_audio # None
          /\ final_video.audio # None
          /\ final_video.audio.kind \in {"mix", "background"}
    /\ disk[result].kind = "output"
    /\ disk[result].content # None
    /\ disk[result].content.duration = final_video.duration

\* C5: create_seamless_video_compilation returns a path only if every
\* download, every clip load, reconciliation, processing, concatenation, the
\* mixing (when audio was asked for) and the export completed without error;
\* generate_seamless_videos answers with a hosted URL only if the pipeline
\* returned, and otherwise exactly one error comes out.
Thm_C5 ==
    /\ result # 0 => AllStagesCompleted
    /\ http.status = 200 => result # 0 /\ err = None
    /\ pc = "responded" =>
          /\ http.status \in {200, 400, 500}
          /\ http.status # 200 => http.detail # NoText
          /\ http.status = 500 => http.cause # None
    /\ PipelineReturned => ((result # 0) # (err # None))

Wit_C5 ==
    /\ pc = "responded"
    /\ http.status = 200
    /\ result # 0
    /\ NumVideos = 2
    /\ req.audio_url # NoText

(* ------------------------------------------------------------------ C6 -- *)
RECURSIVE SumFetched(_)
SumFetched(fs) ==
    IF Len(fs) = 0 THEN 0 ELSE disk[fs[1]].content.duration + SumFetched(Tail(fs))

LoadingStarted ==
    Len(clips) > 0 \/ clip # None \/ pc \in {"load_attempt", "standardize", "process"}

\* C6: videos are fetched, loaded and concatenated in the order of
\* video_urls: the files are fetched one after the other in that order, no
\* clip is loaded before all downloads (videos, then audio) finished, the
\* list given to concatenate_videoclips holds one processed clip per URL at
\* the same index, and the compiled duration is the sum of the clip durations.
Thm_C6 ==
    /\ \A k \in 1..Len(downloaded_videos) :
          /\ disk[downloaded_videos[k]].kind = "video"
          /\ disk[downloaded_videos[k]].src = k
    /\ \A j, k \in 1..Len(disk) :
          /\ (j < k /\ disk[j].kind = "video" /\ disk[k].kind = "video")
                => disk[j].src < disk[k].src
          /\ (disk[j].kind = "audio" /\ disk[k].kind = "video") => k < j
    /\ LoadingStarted =>
          /\ Len(downloaded_videos) = NumVideos
          /\ req.audio_url # NoText => downloaded_audio # 0
    /\ \A k \in 1..Len(clips) : clips[k].file = downloaded_videos[k]
    /\ \A k \in 1..Len(processed_clips) : processed_clips[k].src = k
    /\ final_video # None =>
          /\ Len(processed_clips) = NumVideos
          /\ final_video.parts = [ k \in 1..NumVideos |-> k ]
          /\ final_video.duration = SumFetched(downloaded_videos)

Wit_C6 ==
    /\ final_video # None
    /\ NumVideos = 2
    /\ final_video.duration = 3
    /\ processed_clips[1].resized /\ ~processed_clips[2].resized
    /\ req.apply_moody_effect
    /\ req.audio_url # NoText

(* ------------------------------------------------------------------ C7 -- *)
\* C7: when the attempts for input i are exhausted, every clip loaded for
\* inputs 0..i-1 is closed and the error names position i+1 and carries the
\* cause of the last attempt.
Thm_C7 ==
    (err # None /\ err.stage = "load")
        => /\ \A k \in 1..Len(clips) : ~clips[k].open
           /\ err.index = Len(clips) + 1
           /\ err.attempt = max_retries - 1
           /\ err.cause \in {"open_error", "invalid_duration", "frame_error"}

Wit_C7 ==
    /\ err # None
    /\ err.stage = "load"
    /\ err.index = 2
    /\ Len(clips) = 1
    /\ err.cause = "frame_error"


(* ------------------------------------------------------------------ C8 -- *)
RECURSIVE CountOfType(_, _)
CountOfType(infos, fmt) ==
    IF Len(infos) = 0 THEN 0
    ELSE (IF infos[1].format_type = fmt THEN 1 ELSE 0) + CountOfType(Tail(infos), fmt)

StandardizedAuto ==
    pc = "format_done" /\ fin.target_format = "auto" /\ Len(fin.clips_info) > 0

IsTarget(t, w, h, fmt) == t.width = w /\ t.height = h /\ t.format_type = fmt

\* C8: in auto mode, for every non-empty list: the target is vertical_social
\* (1080x1920) when the vertical_social clips are at least half of the inputs,
\* horizontal_standard (1920x1080) when the horizontal_standard clips are at
\* least half and the vertical_social ones fewer than half, and
\* vertical_social 1080x1920 in every other case.
Thm_C8 ==
    StandardizedAuto =>
        LET n  == Len(fin.clips_info)
            nv == CountOfType(fin.clips_info, "vertical_social")
            nh == CountOfType(fin.clips_info, "horizontal_standard")
        IN  IF 2 * nv >= n THEN IsTarget(fout, 1080, 1920, "vertical_social")
            ELSE IF 2 * nh >= n THEN IsTarget(fout, 1920, 1080, "horizontal_standard")
            ELSE IsTarget(fout, 1080, 1920, "vertical_social")

\* a 1-1 tie of a vertical and a horizontal clip
Wit_C8 ==
    /\ StandardizedAuto
    /\ Len(fin.clips_info) = 2
    /\ fin.clips_info[1].format_type = "horizontal_standard"
    /\ fin.clips_info[2].format_type = "vertical_social"
    /\ IsTarget(fout, 1080, 1920, "vertical_social")

(* ------------------------------------------------------------------ C9 -- *)
\* C9: in auto mode, when vertical_social and horizontal_standard clips are
\* each exactly half of the inputs, the result is that of the mixed-default
\* branch: vertical_social 1080x1920 with resize_needed = TRUE.
Cex_C9 ==
    ( /\ StandardizedAuto
      /\ 2 * CountOfType(fin.clips_info, "vertical_social") = Len(fin.clips_info)
      /\ 2 * CountOfType(fin.clips_info, "horizontal_standard") = Len(fin.clips_info) )
        => /\ IsTarget(fout, 1080, 1920, "vertical_social")
           /\ fout.resize_needed = TRUE

(* ----------------------------------------------------------------- C10 -- *)
\* C10: whatever the list of clip infos, mode 'vertical' gives exactly
\* 1080x1920, vertical_social, resize_needed true, and mode 'horizontal'
\* exactly 1920x1080, horizontal_standard, resize_needed true.
Thm_C10 ==
    /\ (pc = "format_done" /\ fin.target_format = "vertical")
          => fout = [ width |-> 1080, height |-> 1920,
                      format_type |-> "vertical_social", resize_needed |-> TRUE ]
    /\ (pc = "format_done" /\ fin.target_format = "horizontal")
          => fout = [ width |-> 1920, height |-> 1080,
                      format_type |-> "horizontal_standard", resize_needed |-> TRUE ]

\* mode 'vertical' over inputs none of which is vertical
Wit_C10 ==
    /\ pc = "format_done"
    /\ fin.target_format = "vertical"
    /\ Len(fin.clips_info) = 2
    /\ \A k \in 1..2 : fin.clips_info[k].format_type = "horizontal_standard"
    /\ fout.width = 1080


(* ----------------------------------------------------------------- C11 -- *)
\* C11: in every invocation that reaches concatenation a target format was
\* computed, and every clip given to concatenate_videoclips has the target's
\* width and height, in every format mode (keep_original included) and
\* whatever the target's resize_needed flag says.
Thm_C11 ==
    /\ Len(processed_clips) > 0 => target_format # None
    /\ \A k \in 1..Len(processed_clips) :
          /\ processed_clips[k].width = target_format.width
          /\ processed_clips[k].height = target_format.height
    /\ final_video # None =>
          /\ Len(processed_clips) = Len(clips)
          /\ final_video.width = target_format.width
          /\ final_video.height = target_format.height

\* keep_original, flag FALSE, and a second clip of another size was resized
Wit_C11 ==
    /\ final_video # None
    /\ req.format_mode = "keep_original"
    /\ ~target_format.resize_needed
    /\ Len(processed_clips) = 2
    /\ clips[2].width # target_format.width
    /\ processed_clips[2].resized


(* ======================================================================= *)
(* analyze_video_format applied on its own                                  *)
(* ======================================================================= *)

\* frame sizes: every small size (they hit each band's edges exactly, e.g.
\* 3x5, 1x2, 17x10, 9x5, 9x10, 11x10) and the sizes of real footage
AnalyzeSizes ==
    { <<w, h>> : w \in 1..MaxSide, h \in 1..MaxSide } \cup InfoSizes
        \cup { <<1080, 1800>>, <<1081, 1800>>, <<1800, 1000>>, <<1801, 1000>>,
               <<899, 1000>>, <<1101, 1000>>, <<1699, 1000>>, <<1079, 2160>> }

InitAnalyze ==
    /\ pc = "analyze"
    /\ \E wh \in AnalyzeSizes : fin = [ width |-> wh[1], height |-> wh[2] ]
    /\ fout = None
    /\ req = None
    /\ http = NoResponse
    /\ temp_output_path = 0
    /\ PipeIdle

ApplyAnalyze ==
    /\ pc = "analyze"
    /\ fout' = analyze_video_format(fin.width, fin.height)
    /\ pc' = "analyze_done"
    /\ UNCHANGED << req, http, temp_output_path, fin >>
    /\ UNCHANGED pipeVars

NextAnalyze == ApplyAnalyze

SpecAnalyze == InitAnalyze /\ [][NextAnalyze]_vars

\* lo/10 <= width/height <= hi/10
RatioWithin(lo, hi) ==
    lo * fin.height <= 10 * fin.width /\ 10 * fin.width <= hi * fin.height

FormatLabels ==
    {"vertical_social", "horizontal_standard", "square", "ultra_wide", "custom"}

\* C12: for every width and height > 0 the label is vertical_social iff
\* 0.5 <= r <= 0.6, horizontal_standard iff 1.7 <= r <= 1.8, square iff
\* 0.9 <= r <= 1.1, ultra_wide iff r > 1.8 and custom otherwise (r = w/h);
\* every pair gets exactly one label, the four example sizes get theirs, and
\* is_social_ready is true exactly for vertical_social.
Thm_C12 ==
    pc = "analyze_done" =>
       /\ fout.format_type \in FormatLabels
       /\ fout.format_type = "vertical_social" <=> RatioWithin(5, 6)
       /\ fout.format_type = "horizontal_standard" <=> RatioWithin(17, 18)
       /\ fout.format_type = "square" <=> RatioWithin(9, 11)
       /\ fout.format_type = "ultra_wide" <=> 10 * fin.width > 18 * fin.height
       /\ fout.format_type = "custom" <=>
             /\ ~RatioWithin(5, 6) /\ ~RatioWithin(17, 18) /\ ~RatioWithin(9, 11)
             /\ 10 * fin.width <= 18 * fin.height
       /\ fin = [ width |-> 1080, height |-> 1920 ] => fout.format_type = "vertical_social"
       /\ fin = [ width |-> 1920, height |-> 1080 ] => fout.format_type = "horizontal_standard"
       /\ fin = [ width |-> 1000, height |-> 1000 ] => fout.format_type = "square"
       /\ fin = [ width |-> 2000, height |-> 800 ] => fout.format_type = "ultra_wide"
       /\ fout.is_social_ready <=> fout.format_type = "vertical_social"
       /\ fout.width = fin.width /\ fout.height = fin.height

\* a size on the upper edge of the vertical band (r = 0.6 exactly)
Wit_C12 ==
    /\ pc = "analyze_done"
    /\ 10 * fin.width = 6 * fin.height
    /\ fout.format_type = "vertical_social"
    /\ fout.is_social_ready

(* ======================================================================= *)
(* resize_clip_if_needed applied on its own, once and a second time         *)
(* ======================================================================= *)

ResizeClips ==
    { [ width |-> wh[1], height |-> wh[2], duration |-> 1, audio |-> a ] :
        wh \in InfoSizes, a \in BOOLEAN }

\* target dicts as standardize_video_format builds them
ResizeTargets ==
    { [ width |-> wh[1], height |-> wh[2], resize_needed |-> n ] :
        wh \in { <<1080, 1920>>, <<1920, 1080>>, <<720, 1280>>, <<1000, 1000>> },
        n \in BOOLEAN }

InitResize ==
    /\ pc = "resize"
    /\ fin \in [ clip : ResizeClips, target_format : ResizeTargets ]
    /\ fout = None
    /\ req = None
    /\ http = NoResponse
    /\ temp_output_path = 0
    /\ PipeIdle

\* first call: on the input clip
ApplyResize ==
    /\ pc = "resize"
    /\ fout' = [ first |-> resize_clip_if_needed(fin.clip, fin.target_format, 1) ]
    /\ pc' = "resized"
    /\ UNCHANGED << req, http, temp_output_path, fin >>
    /\ UNCHANGED pipeVars

\* second call: on the first call's result, same target
ApplyResizeAgain ==
    /\ pc = "resized"
    /\ fout' = [ first  |-> fout.first,
                 second |-> resize_clip_if_needed(fout.first, fin.target_format, 1) ]
    /\ pc' = "resized_twice"
    /\ UNCHANGED << req, http, temp_output_path, fin >>
    /\ UNCHANGED pipeVars

NextResize == ApplyResize \/ ApplyResizeAgain

SpecResize == InitResize /\ [][NextResize]_vars

SizeIsTarget(c) ==
    c.width = fin.target_format.width /\ c.height = fin.target_format.height

\* C13: resize_clip_if_needed returns the very clip it was given, without a
\* resize, when the clip's width and height equal the target's; otherwise it
\* returns a clip resized to exactly the target's width and height; applied a
\* second time to its own result it never resizes again.
Thm_C13 ==
    /\ pc \in {"resized", "resized_twice"} =>
          /\ SizeIsTarget(fin.clip) =>
                /\ fout.first.same /\ ~fout.first.resized
                /\ fout.first.width = fin.clip.width
                /\ fout.first.height = fin.clip.height
          /\ ~SizeIsTarget(fin.clip) =>
                /\ fout.first.resized /\ ~fout.first.same
          /\ SizeIsTarget(fout.first)
    /\ pc = "resized_twice" =>
          /\ fout.second.same /\ ~fout.second.resized
          /\ SizeIsTarget(fout.second)

\* a 640x480 clip was resized by the first call and left alone by the second
Wit_C13 ==
    /\ pc = "resized_twice"
    /\ fin.clip.width = 640
    /\ fout.first.resized
    /\ fout.second.same


(* ======================================================================= *)
(* Effect Processor: color_effect on one pixel                              *)
(* ======================================================================= *)
(* A pixel is <<R, G, B>> with 8-bit channels; intensity is in tenths.      *)
(* The float arithmetic of the code is carried out exactly on fractions:    *)
(* luma in thousandths, the tint factors 0.9, 0.95, 1.1 in twentieths.      *)

\* floor(a / b) for b > 0 and any integer a
FloorDiv(a, b) == IF a >= 0 THEN a \div b ELSE -((b - 1 - a) \div b)

\* line 153: gray = 0.299 R + 0.587 G + 0.114 B, times 1000
LumaMilli(p) == 299 * p[1] + 587 * p[2] + 114 * p[3]

\* lines 157-159: the factors 0.9, 0.95 and 1.1, times 20
Tint == << 18, 19, 22 >>

\* gray * factor, times 20000
TintedScaled(p, k) == LumaMilli(p) * Tint[k]

\* behaviours of a float -> uint8 conversion that a build can show for a
\* value above 255: the low eight bits are kept, or the value saturates
CastModes == {"wrap", "saturate"}

\* lines 156-159: moody_frame is np.zeros_like(frame), an 8-bit array, so the
\* assignment of gray * factor converts to uint8: the fraction is dropped,
\* and a value of 256 or more is out of the type's range
tinted_uint8(p, k, mode) ==
    LET v == TintedScaled(p, k) \div 20000
    IN  IF v < 256 THEN v ELSE IF mode = "wrap" THEN v % 256 ELSE 255

\* lines 162-168 as one factor on the tinted value, times 20000:
\* (0.5 + 0.3 (1 - i)) * (1 + 0.5 i) * i
MoodyWeight(t) == (80 - 3 * t) * (20 + t) * t

\* lines 165-168, the part that does not depend on the tinted value, times
\* 20000: c (1 - i) + (127.5 - 127.5 (1 + 0.5 i)) i
BlendBase(c, t) == 2000 * c * (10 - t) - 12750 * t * t

\* line 171: np.clip(x, 0, 255).astype(np.uint8) of x = num / 20000
clip_uint8(num) ==
    IF num <= 0 THEN 0
    ELSE IF num >= 255 * 20000 THEN 255
    ELSE num \div 20000

\* variant: the weights of the blend are exchanged
color_effect_channel_swapped(c, m, t) ==
    clip_uint8(2000 * c * t
               + ((m * (80 - 3 * t) - 12750) * (20 + t) + 255000) * (10 - t))

\* lines 162-171 on one channel: c the original value, m the tinted value
color_effect_channel(c, m, t) ==
    clip_uint8(BlendBase(c, t) + m * MoodyWeight(t))

\* color_effect(frame) on one pixel, intensity t tenths
color_effect(p, t, mode) ==
    [ k \in 1..3 |-> color_effect_channel(p[k], tinted_uint8(p, k, mode), t) ]


\* channel values that sit at the ends, around the middle and where
\* gray * 1.1 passes 255 (gray = 232)
PixelLevels == {0, 1, 64, 127, 128, 200, 231, 232, 233, 254, 255}

\* every combination of the levels, every gray pixel and every value of each
\* channel on its own
EffectPixels ==
    { <<r, g, b>> : r \in PixelLevels, g \in PixelLevels, b \in PixelLevels }
        \cup { <<v, v, v>> : v \in 0..255 }
        \cup { <<v, 0, 0>> : v \in 0..255 }
        \cup { <<0, v, 0>> : v \in 0..255 }
        \cup { <<0, 0, v>> : v \in 0..255 }

\* intensity in tenths: 0.0 .. 1.0, and two values outside the unit range,
\* which apply_dark_moody_effect accepts as they are
EffectIntensities == (0..10) \cup {-5, 15}

InitEffect ==
    /\ pc = "effect"
    /\ fin \in [ pixel : EffectPixels, intensity : EffectIntensities ]
    /\ fout = None
    /\ req = None
    /\ http = NoResponse
    /\ temp_output_path = 0
    /\ PipeIdle

ApplyEffect ==
    /\ pc = "effect"
    /\ \E mode \in CastModes :
          fout' = [ pixel |-> color_effect(fin.pixel, fin.intensity, mode) ]
    /\ pc' = "effect_done"
    /\ UNCHANGED << req, http, temp_output_path, fin >>
    /\ UNCHANGED pipeVars

NextEffect == ApplyEffect

SpecEffect == InitEffect /\ [][NextEffect]_vars

\* C14: the effect's output depends on the frame and the intensity only, and
\* with intensity = 0 the output pixel equals the input pixel, for every
\* value 0..255 of every channel.
Thm_C14 ==
    pc = "effect_done" /\ fin.intensity = 0 =>
       /\ fout.pixel = fin.pixel
       /\ \A mode \in CastModes : color_effect(fin.pixel, 0, mode) = fin.pixel

\* a bright pixel, whose tinted blue value is out of the 8-bit range
Wit_C14 ==
    /\ pc = "effect_done"
    /\ fin.intensity = 0
    /\ fin.pixel = <<255, 255, 255>>
    /\ fout.pixel = <<255, 255, 255>>

\* the steps carried out on fractions throughout, on channel k: the tinted
\* value gray * factor keeps its fraction and its full size, and the only
\* conversion to 0..255 is the last one
effect_without_truncation(p, k, t) ==
    LET q == TintedScaled(p, k) \div 20000
        r == TintedScaled(p, k) % 20000
    IN  clip_uint8(BlendBase(p[k], t) + q * MoodyWeight(t)
                   + FloorDiv(r * MoodyWeight(t), 20000))

\* C15: for every 8-bit pixel and every intensity in [0,1] each output
\* channel equals the value of the steps luma, tint, darken, contrast and
\* blend carried out in order with no intermediate truncation or wrap-around
\* and clamped once at the end to 0..255; the output lies in 0..255.
Cex_C15 ==
    pc = "effect_done" /\ fin.intensity \in 0..10 =>
       \A k \in 1..3 :
          /\ fout.pixel[k] \in 0..255
          /\ fout.pixel[k] = effect_without_truncation(fin.pixel, k, fin.intensity)


(* ----------------------------------------------------------------- C16 -- *)
\* the background track was opened (line 470) and is shorter than the video
ShortBackground ==
    /\ background_audio # None
    /\ final_video # None
    /\ background_audio.duration < final_video.duration

\* line 474: loops_needed = int(V / B) + 1
loops_needed(b, v) == (v.duration \div b.duration) + 1

\* C16: a background track shorter than the compiled video is looped
\* int(V/B) + 1 times, which makes it at least as long as the video, is
\* trimmed to exactly the video's duration, and the pipeline goes on to the
\* export.
Cex_C16 ==
    ShortBackground =>
       /\ loops_needed(background_audio, final_video) * background_audio.duration
             >= final_video.duration
       /\ err = None \/ err.stage # "mix"
       /\ final_video.audio # None
       /\ final_video.audio.kind \in {"mix", "background"}
       /\ final_video.audio.duration = final_video.duration

(* ----------------------------------------------------------------- C19 -- *)
\* the compiled video carries audio: some processed clip has an audio track
VideoCarriesAudio ==
    \E k \in 1..Len(processed_clips) : processed_clips[k].audio

\* the compiled video's audio is the track the mixing rules give
MixedAsSpecified ==
    /\ final_video.audio # None
    /\ final_video.audio.duration = final_video.duration
    /\ final_video.audio.background_gain = req.background_music_volume
    /\ IF VideoCarriesAudio
       THEN /\ final_video.audio.kind = "mix"
            /\ final_video.audio.video_gain = req.video_audio_volume
       ELSE /\ final_video.audio.kind = "background"
            /\ final_video.audio.video_gain = 0

\* C19: when a background track is supplied, the compiled video's audio is
\* replaced by a track of the video's duration: the composite of the video's
\* audio scaled by video_audio_volume and the background scaled by
\* background_music_volume if the video carries audio, the background alone
\* scaled by background_music_volume if it carries none.
Cex_C19 ==
    background_audio # None => MixedAsSpecified


(* ======================================================================= *)
(* download_media_from_url applied on its own                               *)
(* ======================================================================= *)

\* the extension after lines 209-225
FileExtensions == {"mp4", "mp3"}

InitDownload ==
    /\ pc = "download"
    /\ fin \in [ e : DownloadEnv, file_extension : FileExtensions ]
    /\ fout = None
    /\ req = None
    /\ http = NoResponse
    /\ temp_output_path = 0
    /\ PipeIdle

ApplyDownload ==
    /\ pc = "download"
    /\ fout' = download_media_from_url(fin.e, fin.file_extension)
    /\ pc' = "download_done"
    /\ UNCHANGED << req, http, temp_output_path, fin >>
    /\ UNCHANGED pipeVars

NextDownload == ApplyDownload

SpecDownload == InitDownload /\ [][NextDownload]_vars

\* the conditions on which the fetch has to fail: a status that is not 2xx
\* or a timeout, a transport error while the body streams, a file that stays
\* below 1024 bytes, a failing read-back of the written file
MustFail(e) ==
    \/ e.request # "ok"
    \/ ~e.stream_ok
    \/ e.size2 < 1024
    \/ ~e.access_ok

FailureCauses ==
    {"http_error", "timeout", "stream_error", "too_small", "not_accessible"}

MarkersAbsent ==
    /\ fin.file_extension = "mp4"
    /\ fin.e.request = "ok" /\ fin.e.stream_ok
    /\ fin.e.size1 >= 1024
    /\ fin.e.verify_open_ok
    /\ ~fin.e.markers64 /\ ~fin.e.markers1k

\* C20: in an mp4 of at least 1024 bytes the absence of the container
\* markers from the first 64 bytes and from the first 1KB never makes the
\* fetch fail: there is a warning and the call still returns the temp path.
Thm_C20 ==
    pc = "download_done" /\ MarkersAbsent =>
       /\ fout.warning
       /\ fout.cause \in {NoText, "not_accessible"}
       /\ fin.e.access_ok => fout.returned /\ fout.cause = NoText

Wit_C20 ==
    /\ pc = "download_done"
    /\ MarkersAbsent
    /\ fin.e.declared /\ fin.e.content_length = 2000 /\ fin.e.size1 = 2000
    /\ fout.returned
    /\ fout.warning

(* ----------------------------------------------------------------- C18 -- *)
\* the auto mode took one of its two majority branches
MajorityPicked ==
    /\ StandardizedAuto
    /\ \/ vertical_majority(fin.clips_info)
       \/ horizontal_majority(fin.clips_info)

\* C18: in auto mode, when the majority format is picked, resize_needed is
\* false only if every input clip already has the target's width and height;
\* if any input differs from the target, resize_needed is true.
Cex_C18 ==
    MajorityPicked =>
       ( fout.resize_needed <=>
           \E k \in 1..Len(fin.clips_info) :
              \/ fin.clips_info[k].width # fout.width
              \/ fin.clips_info[k].height # fout.height )


(* ----------------------------------------------------------------- C21 -- *)
\* C21: when the response declares a content-length, the call returns a path
\* only if the file's size on disk equals the declared length at the first
\* check or at the one delayed re-check; the re-check is made only after a
\* mismatch and is the only repeated step.
Cex_C21 ==
    pc = "download_done" /\ fin.e.declared =>
       /\ fout.returned =>
             \/ fin.e.size1 = fin.e.content_length
             \/ fin.e.size2 = fin.e.content_length
       /\ fout.rechecked => fin.e.size1 # fin.e.content_length


(* ----------------------------------------------------------------- C22 -- *)
\* the file the loader is working on
CurrentFile == downloaded_videos[i + 1]

\* the step appended a clip: the attempt succeeded (line 437)
AttemptSucceeded == Len(clips') = Len(clips) + 1

\* the handle a successful attempt leaves, by strategy: the first opens with
\* audio, the second ends with audio only if the reattached handle has it,
\* the third opens without audio
HandleOfStrategy(h, att) ==
    /\ h.file = CurrentFile
    /\ h.open
    /\ att = 0 => h.audio = disk[CurrentFile].content.audio
    /\ att = 1 => (h.audio => disk[CurrentFile].content.audio)
    /\ att = 2 => ~h.audio

LoadStepOrdered ==
    pc = "load_attempt" =>
       /\ attempt \in 0..(max_retries - 1)
       /\ IF AttemptSucceeded
          THEN /\ HandleOfStrategy(clips'[Len(clips')], attempt)
               /\ pc' \in {"load", "standardize"}
               /\ attempt' = 0
               /\ err' = None
          ELSE IF pc' = "load_attempt"
          THEN /\ attempt' = attempt + 1
               /\ attempt' <= max_retries - 1
               /\ i' = i /\ clips' = clips /\ err' = None
          ELSE /\ attempt = max_retries - 1
               /\ pc' = "finally"
               /\ err'.stage = "load"

\* C22: for each input file the loader makes at most 3 attempts, in the
\* order full open with audio, video-only open with a reattached audio handle
\* that replaces it only if it opens and has audio, video-only reload; attempt
\* k+1 is made only if attempt k failed and none is made after a success.
Thm_C22 == [][LoadStepOrdered]_vars

\* a file with audio was loaded without it: the first attempt had failed
Wit_C22 ==
    /\ Len(clips) >= 1
    /\ clips[1].open
    /\ ~clips[1].audio
    /\ disk[clips[1].file].content.audio


(* ----------------------------------------------------------------- C23 -- *)
\* a handle over the current file that is still open
OpenOnCurrentFile(h) == h # None /\ h.file = CurrentFile /\ h.open

\* C23: after a successful open, a duration <= 0 or a failing read of the
\* frame at 0 makes the attempt fail; on a non-final attempt every handle the
\* attempt opened is closed before the next attempt starts, on the third
\* attempt the failure is fatal for the request.
Cex_C23 ==
    /\ pc = "load_attempt" /\ attempt > 0 =>
          /\ ~OpenOnCurrentFile(clip)
          /\ \A k \in 1..Len(stray) : ~OpenOnCurrentFile(stray[k])
    /\ err # None /\ err.stage = "load"
          /\ err.cause \in {"invalid_duration", "frame_error"} =>
             /\ err.attempt = max_retries - 1
             /\ pc # "load_attempt"


(* ======================================================================= *)
(* The checks in front of the first load attempt, on their own              *)
(* ======================================================================= *)

\* What the loader can see of the file at lines 351-368: whether it exists,
\* its size at line 354, at line 363 (0.5 s later) and at line 368 (1 s
\* later, read only after a mismatch).  Another writer may change the size
\* between any two reads.
ObservedSizes == {0, 500, 1024, 2000, 3000}

LoadObservations ==
    [ exists : BOOLEAN, size1 : ObservedSizes, size2 : ObservedSizes,
      size3 : ObservedSizes ]

\* lines 351-370.  outcome is one of PreLoadObservations: "ok" means line 373
\* is reached and the first VideoFileClip open follows; reads counts the size
\* reads made, final_size is the size printed as stable at line 370.
pre_load_checks(o) ==
    IF ~o.exists
    THEN [ outcome |-> "missing", reads |-> 0, final_size |-> 0 ]
    ELSE IF o.size1 = 0
    THEN [ outcome |-> "empty", reads |-> 1, final_size |-> 0 ]
    ELSE IF o.size1 # o.size2
    THEN [ outcome |-> "ok", reads |-> 3, final_size |-> o.size3 ]
    ELSE [ outcome |-> "ok", reads |-> 2, final_size |-> o.size2 ]

InitLoadCheck ==
    /\ pc = "load_check"
    /\ fin \in LoadObservations
    /\ fout = None
    /\ req = None
    /\ http = NoResponse
    /\ temp_output_path = 0
    /\ PipeIdle

ApplyLoadCheck ==
    /\ pc = "load_check"
    /\ fout' = pre_load_checks(fin)
    /\ pc' = "load_check_done"
    /\ UNCHANGED << req, http, temp_output_path, fin >>
    /\ UNCHANGED pipeVars

NextLoadCheck == ApplyLoadCheck

SpecLoadCheck == InitLoadCheck /\ [][NextLoadCheck]_vars

\* C24: the first open of an input happens only after two size checks
\* separated by a delay returned the same size, also when another writer is
\* still appending to the file between the checks.
Cex_C24 ==
    pc = "load_check_done" /\ fout.outcome = "ok" =>
       \/ fin.size1 = fin.size2
       \/ fout.reads = 3 /\ fin.size2 = fin.size3


(* ----------------------------------------------------------------- C25 -- *)
\* max(0, min(1, intensity)) in tenths
ClampedIntensity(t) == IF t < 0 THEN 0 ELSE IF t > 10 THEN 10 ELSE t

\* C25: the intensity is clamped to [0,1] before the effect uses it: the
\* frame computed for any intensity is the frame computed for
\* max(0, min(1, intensity)), so an intensity above 1 gives the frames of 1
\* and an intensity below 0 the frames of 0.
Cex_C25 ==
    pc = "effect_done" =>
       \E mode \in CastModes :
          fout.pixel = color_effect(fin.pixel, ClampedIntensity(fin.intensity), mode)


(* ----------------------------------------------------------------- C26 -- *)
\* Whether the message of line 296 names the source.  The message is the
\* fixed text plus str(e): the HTTPError of raise_for_status (line 201) ends
\* in "for url: <url>"; the messages of lines 262 and 290 and a timeout carry
\* no URL, and no message carries the input's index.
message_names_source(e) ==
    e.index # 0 \/ e.cause = "http_error"

\* C26: when the download of a source fails, the one error surfaced by
\* create_seamless_video_compilation, and relayed in the handler's 500
\* detail, names the stage as fetch, names the failed source by its URL or
\* input index, and carries the underlying cause.
Cex_C26 ==
    PipelineFailedAt({"download"}) =>
       /\ err.cause # NoText
       /\ message_names_source(err)
       /\ pc = "responded" => http.status = 500 /\ http.cause = err


(* ----------------------------------------------------------------- C27 -- *)
\* the temp files of the fetches that returned a path: only those hold content
FetchedFiles == { k \in AssetFiles : disk[k].content # None }

\* C27: every asset whose fetch returned during an invocation of
\* create_seamless_video_compilation (each video, the optional audio) is
\* fetched exactly once, and its temp file no longer exists when the
\* invocation returns, normally or by raising at any later stage.
Thm_C27 ==
    /\ \A k \in AssetFiles : \A l \in AssetFiles :
          disk[k].kind = disk[l].kind /\ disk[k].src = disk[l].src => k = l
    /\ Cardinality(FetchedFiles)
          = Len(downloaded_videos) + (IF downloaded_audio # 0 THEN 1 ELSE 0)
    /\ PipelineReturned => \A k \in FetchedFiles : ~disk[k].exists

\* two videos and the audio were fetched and the invocation raised afterwards
Wit_C27 ==
    /\ PipelineReturned
    /\ err # None
    /\ err.stage \in {"load", "process", "mix", "export"}
    /\ Cardinality(FetchedFiles) = 3
    /\ \A k \in FetchedFiles : ~disk[k].exists


(* ----------------------------------------------------------------- C28 -- *)
\* the stages in which the loaded clips are in use
ClipsInUse ==
    pc \in {"load", "load_attempt", "standardize", "process", "concatenate", "mix",
            "export"}

\* C28: every clip appended to the clips list is an open handle over its
\* input's file that passed the duration check and the read of the frame at
\* 0 in the attempt that produced it; the retry loop is left by a validated
\* success or by raising, never with a missing, closed or unvalidated handle.
Thm_C28 ==
    /\ \A k \in 1..Len(clips) :
          /\ clips[k] # None
          /\ clips[k].validated
          /\ clips[k].file = downloaded_videos[k]
          /\ ClipsInUse => clips[k].open
    /\ Len(clips_info) = Len(clips)
    /\ pc \in {"standardize", "process", "concatenate", "mix", "export"} =>
          Len(clips) = Len(downloaded_videos)
    /\ \A k \in 1..Len(stray) : ~stray[k].validated
    /\ clip # None => ~clip.validated

\* the second input was loaded at a later attempt than the first
Wit_C28 ==
    /\ pc = "standardize"
    /\ Len(clips) = 2
    /\ clips[2].validated /\ clips[2].open
    /\ ~clips[2].audio /\ disk[clips[2].file].content.audio
    /\ clips[1].audio


(* ----------------------------------------------------------------- C29 -- *)
\* the audio of the joined clips at full gain, None if no clip has audio
UnmixedAudio ==
    IF VideoCarriesAudio
    THEN [ kind |-> "original", video_gain |-> 10, background_gain |-> 0,
           duration |-> AudioEnd(processed_clips) ]
    ELSE None

\* C29: when no audio_url is supplied, no audio is downloaded, the mixing
\* step is skipped, and the compiled video's audio is left exactly as the
\* concatenation produced it: neither volume parameter changes the output.
Thm_C29 ==
    req # None /\ req.audio_url = NoText =>
       /\ downloaded_audio = 0
       /\ background_audio = None
       /\ \A k \in 1..Len(disk) : disk[k].kind # "audio"
       /\ pc # "download_audio" /\ pc # "mix"
       /\ err # None => err.stage # "mix"
       /\ final_video # None => final_video.audio = UnmixedAudio
       /\ result # 0 => disk[result].content.audio = UnmixedAudio

\* a request with video_audio_volume 0 and no audio_url was exported with the
\* clips' audio at full gain
Wit_C29 ==
    /\ req # None /\ req.audio_url = NoText
    /\ req.video_audio_volume = 0
    /\ result # 0
    /\ VideoCarriesAudio
    /\ disk[result].content.audio.video_gain = 10


(* ----------------------------------------------------------------- C30 -- *)
\* generate_seamless_videos has answered
HandlerFinished == req # None /\ req.entry = "http" /\ pc = "responded"

\* C30: once validation has passed and the temporary output file exists,
\* that file no longer exists when the handler finishes, on every exit path
\* (successful upload, pipeline failure, upload failure); a pipeline or upload
\* failure is reported as HTTP 500, a validation failure keeps its 400.
Thm_C30 ==
    HandlerFinished =>
       /\ validation_error(req) # NoText =>
             /\ http.status = 400
             /\ temp_output_path = 0
       /\ validation_error(req) = NoText =>
             /\ temp_output_path # 0
             /\ disk[temp_output_path].kind = "output"
             /\ ~disk[temp_output_path].exists
             /\ err # None => http.status = 500 /\ http.cause = err
             /\ err = None => \/ http.status = 200 /\ result = temp_output_path
                              \/ http.status = 500 /\ http.cause.stage = "upload"

\* the pipeline returned the exported file and the upload failed
Wit_C30 ==
    /\ HandlerFinished
    /\ err = None
    /\ result = temp_output_path
    /\ http.status = 500
    /\ http.cause.stage = "upload"
    /\ ~disk[temp_output_path].exists

====
